---------------------------- MODULE Spec2Model ----------------------------
(***************************************************************************)
(* A model of src/MovePredictionEngine.py: the static circular weight      *)
(* model (BaseMoveWeights), the move vector factory (get_move), the        *)
(* adaptive predictor (record_move_and_get_predicted), the scoring         *)
(* function (get_scoring_weight) and the round driver                      *)
(* (test_score_move_series).                                               *)
(*                                                                         *)
(* Number representation.  The program computes in floating point; the     *)
(* model computes in integers that stand for exact rationals:              *)
(*   - a template weight w is held as w * WeightUnit (WeightUnit = 15, so  *)
(*     1 - (4/30)*j is the integer 15 - 2*j);                              *)
(*   - an interpolation weight is held as a numerator over the denominator *)
(*     the record carries (t1_weight = t1n/den, t2_weight = t2n/den);      *)
(*   - a move vector returned by get_move is held as entries over          *)
(*     WeightUnit * den;                                                   *)
(*   - inside an engine every move vector is held in units of              *)
(*     MoveStep / (WeightUnit * StateCount) (exact for bin-aligned angles, *)
(*     the angles the engine specifications feed), tensor cells in the     *)
(*     square and predictions in the cube of that unit;                    *)
(*   - the results of get_scoring_weight and the round's sums are fixed    *)
(*     point numbers in units of 1/FixOne, every division rounding         *)
(*     towards zero; math.pow is a table in thousandths.                   *)
(* Angles are whole degrees.                                               *)
(***************************************************************************)
EXTENDS Integers, Sequences, FiniteSets, TLC

VARIABLES
    constructed,     \* an engine object exists
    history_depth,   \* self.history_depth
    history,         \* self.history: sequence of move vectors, most recent first
    weights,         \* self.weights: history_depth x StateCount x StateCount
    moveCount,       \* number of moves recorded on the engine so far
    call,            \* the last call on the engine: operation, argument, outcome
    pred,            \* the vector the last record_move_and_get_predicted returned
    before,          \* history and weights as they were when the last call began
    scored,          \* what the last get_scoring_weight returned
    degrees,         \* test_score_move_series: the argument
    pc,              \* test_score_move_series: position
    idx,             \* test_score_move_series: moves consumed
    pos_sum,         \* test_score_move_series: pos_sum
    neg_sum,         \* test_score_move_series: neg_sum
    final,           \* test_score_move_series: outcome and returned value
    ret              \* the last result of a pure function applied on its own

vars == << constructed, history_depth, history, weights, moveCount, call, pred,
           before, scored, degrees, pc, idx, pos_sum, neg_sum, final, ret >>

engineVars == << constructed, history_depth, history, weights, moveCount, call,
                 pred, before, scored >>

seriesVars == << degrees, pc, idx, pos_sum, neg_sum, final >>

---------------------------------------------------------------------------
(* Program constants and representation units *)

StateCount == 30

CircularRange == 360

WeightUnit == StateCount \div 2

BaseDiffPerState == (4 * WeightUnit) \div StateCount

FixBits == 12

FixOne == 2 ^ FixBits

States == 0 .. (StateCount - 1)

Abs(x) == IF x < 0 THEN -x ELSE x

Max2(a, b) == IF a > b THEN a ELSE b

RECURSIVE Gcd(_, _)
Gcd(a, b) == IF b = 0 THEN Abs(a) ELSE Gcd(b, a % b)

ZeroMove == [k \in States |-> 0]

\* The greatest common divisor of the entries of every bin-aligned move vector:
\* over WeightUnit * StateCount such an entry is StateCount * w + BaseDiffPerState
\* or StateCount * w - BaseDiffPerState, w a template weight
MoveStep ==
    Gcd(Gcd((StateCount * WeightUnit) + BaseDiffPerState,
            (StateCount * WeightUnit) - BaseDiffPerState),
        StateCount * BaseDiffPerState)

RECURSIVE SumAbsFrom(_, _)
SumAbsFrom(v, k) == IF k = StateCount THEN 0 ELSE Abs(v[k]) + SumAbsFrom(v, k + 1)

RECURSIVE SumFrom(_, _)
SumFrom(v, k) == IF k = StateCount THEN 0 ELSE v[k] + SumFrom(v, k + 1)

RECURSIVE MaxFrom(_, _)
MaxFrom(v, k) ==
    IF k = StateCount - 1 THEN v[k] ELSE Max2(v[k], MaxFrom(v, k + 1))

RECURSIVE MinFrom(_, _)
MinFrom(v, k) ==
    IF k = StateCount - 1 THEN v[k] ELSE -Max2(-v[k], -MinFrom(v, k + 1))

---------------------------------------------------------------------------
(* BaseMoveWeights *)

\* x - StateCount * (x // StateCount); // is Python's floor division
get_index_at_offset(t, offset) ==
    LET x == t + offset
    IN  x - (StateCount * (x \div StateCount))

\* The body of initialize's inner loop: both writes of one j
template_writes_forward_only(move, t, j) ==
    [move EXCEPT ![get_index_at_offset(t, j)] = WeightUnit - (BaseDiffPerState * j)]

template_writes(move, t, j) ==
    LET weight == WeightUnit - (BaseDiffPerState * j)
        m1 == [move EXCEPT ![get_index_at_offset(t, j)] = weight]
    IN  [m1 EXCEPT ![get_index_at_offset(t, -j)] = weight]

\* for j in range(StateCount // 2 + 1)
RECURSIVE template_loop(_, _, _)
template_loop(move, t, j) ==
    IF j = (StateCount \div 2) + 1 THEN move
    ELSE template_loop(template_writes(move, t, j), t, j + 1)

\* initialize(), first loop: MoveWeights[t] for t in range(StateCount)
MoveWeights == [t \in States |-> template_loop(ZeroMove, t, 0)]

\* initialize(), second loop: the sum of |MoveWeights[0].states[j]|, in 1/WeightUnit
SumMoveWeights == SumAbsFrom(MoveWeights[0], 0)

\* Python list indexing of MoveWeights: -len <= t < len, a negative t counts
\* from the end; any other t raises IndexError.
ListIndexOk(t) == (-StateCount <= t) /\ (t < StateCount)

ListIndex(t) == IF t < 0 THEN t + StateCount ELSE t

---------------------------------------------------------------------------
(* get_target_state_and_weights, get_move *)

get_target_state_and_weights(deg) ==
    LET d0 == IF deg = CircularRange THEN 0 ELSE deg
        t == (StateCount * d0) \div CircularRange
        \* 1 - ((t + 1)/StateCount - degrees/CircularRange), over
        \* StateCount * CircularRange, then in lowest terms
        full == StateCount * CircularRange
        t1raw == full - (((t + 1) * CircularRange) - (d0 * StateCount))
        g == Gcd(Gcd(t1raw, full - t1raw), full)
    IN  [t |-> t, t1n |-> t1raw \div g, t2n |-> (full - t1raw) \div g,
         den |-> full \div g]

\* get_move raises IndexError at MoveWeights[t] when t is no list index
get_move_ok(deg) == ListIndexOk(get_target_state_and_weights(deg).t)

\* One assignment of get_move's loop
move_entry(base_move, tw, j) ==
    (base_move[get_index_at_offset(tw.t, j)] * tw.t1n)
        + (base_move[get_index_at_offset(tw.t, j - 1)] * tw.t2n)

\* for j in range(1, StateCount + 1)
RECURSIVE move_loop(_, _, _, _)
move_loop(move, base_move, tw, j) ==
    IF j = StateCount + 1 THEN move
    ELSE move_loop([move EXCEPT ![get_index_at_offset(tw.t, j)] =
                        move_entry(base_move, tw, j)],
                   base_move, tw, j + 1)

\* The vector of get_move(deg), entries over WeightUnit * den
get_move(deg) ==
    LET tw == get_target_state_and_weights(deg)
    IN  [den |-> tw.den,
         states |-> move_loop(ZeroMove, MoveWeights[ListIndex(tw.t)], tw, 1)]

---------------------------------------------------------------------------
(* Fixed point arithmetic standing for the program's floating point *)

\* floor(r * 2^bits / b) for 0 <= r < b, one binary digit at a time
RECURSIVE FixFrac(_, _, _)
FixFrac(r, b, bits) ==
    IF bits = 0 THEN 0
    ELSE IF 2 * r >= b
         THEN (2 ^ (bits - 1)) + FixFrac((2 * r) - b, b, bits - 1)
         ELSE FixFrac(2 * r, b, bits - 1)

\* floor(a * FixOne / b) for a >= 0, b > 0
FixQuot(a, b) == ((a \div b) * FixOne) + FixFrac(a % b, b, FixBits)

\* x / d rounded towards zero, d > 0
TruncDiv(x, d) == IF x >= 0 THEN x \div d ELSE -((-x) \div d)

\* (num / den) / total in units of 1/FixOne, rounded towards zero
FixRatio(num, den, total) ==
    IF num >= 0 THEN FixQuot(num, total) \div den
    ELSE -(FixQuot(-num, total) \div den)

\* math.pow(base, 1.0 / math.log(depth)) in thousandths, depth in 2..7, base in 0..7
PowTable ==
    << << 0, 1000, 2718, 4879, 7389, 10195, 13263, 16566 >>,
       << 0, 1000, 1879, 2718, 3532, 4327, 5109, 5878 >>,
       << 0, 1000, 1649, 2209, 2718, 3193, 3642, 4070 >>,
       << 0, 1000, 1538, 1979, 2366, 2718, 3044, 3350 >>,
       << 0, 1000, 1472, 1846, 2168, 2455, 2718, 2962 >>,
       << 0, 1000, 1428, 1759, 2039, 2287, 2511, 2718 >> >>

PowScaler(base, depth) == PowTable[depth - 1][base + 1]

\* math.pow(depth / 2.0, 1.0 / math.log(depth)) in thousandths, depth in 2..7
MiddleTable == << 1000, 1446, 1649, 1767, 1846, 1904 >>

ScoreScalerMiddle(depth) == MiddleTable[depth - 1]

---------------------------------------------------------------------------
(* get_scoring_weight *)

\* max(max_state, abs(min_state))
max_abs_max_only(predicted) == MaxFrom(predicted, 0)

max_abs(predicted) == Max2(MaxFrom(predicted, 0), Abs(MinFrom(predicted, 0)))

\* The base of math.pow(len(self.history), self.scoreScaler)
scaler_base(hist) == Len(hist)

\* The triple get_scoring_weight returns (feedback, pos_add, neg_add), with the
\* scaler it applied (scaler, and base, the first argument of math.pow) and the
\* exact parts of its locals: score is (raw_num / raw_den) / sum_states *
\* SumMoveWeights and score_range_normalizer is max_abs / sum_states *
\* SumMoveWeights.  The read predicted.states[t] raises IndexError when t is no
\* list index.
get_scoring_weight(deg, predicted, hist, depth) ==
    LET tw == get_target_state_and_weights(deg)
        sum_states == SumAbsFrom(predicted, 0)
    IN  IF sum_states > 0
        THEN IF ~ListIndexOk(tw.t)
             THEN [outcome |-> "IndexError", contributes |-> TRUE, feedback |-> 0,
                   pos_add |-> 0, neg_add |-> 0, scaler |-> 0, base |-> 0,
                   raw_num |-> 0, raw_den |-> 1, max_abs |-> 0, sum_states |-> sum_states]
             ELSE
             LET num == (predicted[ListIndex(tw.t)] * tw.t1n)
                          + (predicted[get_index_at_offset(tw.t, 1)] * tw.t2n)
                 score == TruncDiv(FixRatio(num, tw.den, sum_states) * SumMoveWeights,
                                   WeightUnit)
                 score_range_normalizer ==
                     TruncDiv(FixQuot(max_abs(predicted), sum_states) * SumMoveWeights,
                              WeightUnit)
                 base == scaler_base(hist)
                 scaler == PowScaler(base, depth)
             IN  [outcome |-> "ok", contributes |-> TRUE,
                  feedback |-> -TruncDiv(score * scaler, ScoreScalerMiddle(depth)),
                  pos_add |-> TruncDiv((score_range_normalizer - score) * scaler, 1000),
                  neg_add |-> TruncDiv((score_range_normalizer + score) * scaler, 1000),
                  scaler |-> scaler, base |-> base,
                  raw_num |-> num, raw_den |-> tw.den, max_abs |-> max_abs(predicted),
                  sum_states |-> sum_states]
        ELSE [outcome |-> "ok", contributes |-> FALSE, feedback |-> 0,
              pos_add |-> 0, neg_add |-> 0, scaler |-> 0, base |-> 0,
              raw_num |-> 0, raw_den |-> 1, max_abs |-> 0, sum_states |-> 0]

---------------------------------------------------------------------------
(* The state no operation of a specification touches *)

NoCall == [op |-> "none", arg |-> 0, outcome |-> "none"]

NoScore == [outcome |-> "none", contributes |-> FALSE, feedback |-> 0,
            pos_add |-> 0, neg_add |-> 0, scaler |-> 0, base |-> 0,
            raw_num |-> 0, raw_den |-> 1, max_abs |-> 0, sum_states |-> 0]

NoBefore == [history |-> << >>, weights |-> << >>]

NoFinal == [outcome |-> "none", value |-> 0]

NoRet == [op |-> "none"]

NoEngine ==
    /\ constructed = FALSE
    /\ history_depth = 0
    /\ history = << >>
    /\ weights = << >>
    /\ moveCount = 0
    /\ call = NoCall
    /\ pred = ZeroMove
    /\ before = NoBefore
    /\ scored = NoScore

NoSeries ==
    /\ degrees = << >>
    /\ pc = "none"
    /\ idx = 0
    /\ pos_sum = 0
    /\ neg_sum = 0
    /\ final = NoFinal

---------------------------------------------------------------------------
(* The pure functions applied on their own: inputs drawn from bounded sets *)

MaxProbeValue == 2

\* Angles given to get_move and get_scoring_weight: every bin-aligned angle,
\* angles inside a bin (the module docstring's 24, 30 and 35), both ends of the
\* range and angles outside it
ProbeAngles ==
    {(CircularRange \div StateCount) * t : t \in 0 .. StateCount}
        \cup {1, 6, 30, 35, 179, 354, 359} \cup {-12, -1, -360, -372, 361, 372}

\* Predicted vectors: two neighbouring entries and a background value
ProbeValues == (-MaxProbeValue) .. MaxProbeValue

ProbePredicted ==
    {[k \in States |-> IF k = a THEN x
                       ELSE IF k = get_index_at_offset(a, 1) THEN y ELSE z] :
        a \in {0, 14, 29}, x \in ProbeValues, y \in ProbeValues,
        z \in {-1, 0, 1}}

\* Angles given to get_scoring_weight
ScoreAngles == {0, 6, 24, 35, 168, 174, 348, 359, 360, -12, -372, 372}

InitPure ==
    /\ NoEngine
    /\ NoSeries
    /\ ret = NoRet

\* template(t): MoveWeights[t] as initialize() left it
CallTemplate ==
    \E t \in States :
        /\ ret = NoRet
        /\ ret' = [op |-> "template", t |-> t, states |-> MoveWeights[t],
                sum_abs |-> SumAbsFrom(MoveWeights[t], 0)]
        /\ UNCHANGED << engineVars, seriesVars >>

CallGetTargetStateAndWeights ==
    \E deg \in ProbeAngles :
        /\ ret = NoRet
        /\ ret' = [op |-> "get_target_state_and_weights", degrees |-> deg,
                tw |-> get_target_state_and_weights(deg)]
        /\ UNCHANGED << engineVars, seriesVars >>

CallGetMove ==
    \E deg \in ProbeAngles :
        /\ ret = NoRet
        /\ ret' = IF get_move_ok(deg)
                  THEN [op |-> "get_move", degrees |-> deg, outcome |-> "ok",
                        move |-> get_move(deg)]
                  ELSE [op |-> "get_move", degrees |-> deg,
                        outcome |-> "IndexError"]
        /\ UNCHANGED << engineVars, seriesVars >>

\* get_scoring_weight on an engine of the given depth whose history holds
\* histLen moves
CallGetScoringWeight ==
    \E deg \in ScoreAngles, predicted \in ProbePredicted, depth \in 2 .. 3 :
        \E histLen \in 1 .. depth :
            /\ ret = NoRet
            /\ ret' = [op |-> "get_scoring_weight", degrees |-> deg,
                    predicted |-> predicted, histLen |-> histLen, depth |-> depth,
                    result |-> get_scoring_weight(deg, predicted,
                                   [d \in 1 .. histLen |-> ZeroMove], depth)]
            /\ UNCHANGED << engineVars, seriesVars >>

NextPure ==
    \/ CallTemplate
    \/ CallGetTargetStateAndWeights
    \/ CallGetMove
    \/ CallGetScoringWeight

SpecPure == InitPure /\ [][NextPure]_vars

---------------------------------------------------------------------------
(* MovePredictionEngine.__init__ *)

\* 1.0 / math.log(history_depth): math.log raises ValueError for an argument
\* <= 0, and the division raises ZeroDivisionError when the logarithm is 0
ctor_outcome_log_only(depth) ==
    IF depth <= 0 THEN "ValueError" ELSE "ok"

ctor_outcome(depth) ==
    IF depth <= 0 THEN "ValueError"
    ELSE IF depth = 1 THEN "ZeroDivisionError"
    ELSE "ok"

\* [Move(StateCount) for _ in range(StateCount)], once per d in range(depth)
ctor_weights(depth) ==
    [d \in 1 .. depth |-> [i \in States |-> ZeroMove]]

---------------------------------------------------------------------------
(* record_move_and_get_predicted *)

\* The move vector in the engine's unit, for a bin-aligned angle
engine_move(deg) ==
    LET m == get_move(deg)
    IN  [k \in States |-> m.states[k] \div MoveStep]

\* The two statements of the innermost loop for one (d, i, j): w is
\* move_weights_i.states[j] as the iteration finds it, h is hist_move.states[j],
\* m is move_state_i.  add is what the first statement adds to pred.states[i],
\* cell is what the second leaves in move_weights_i.states[j].
cell_step_write_first(w, h, m) ==
    [add |-> h * (w + (m * h)), cell |-> w + (m * h)]

cell_step_overwrite(w, h, m) ==
    [add |-> h * w, cell |-> m * h]

cell_step(w, h, m) ==
    [add |-> h * w, cell |-> w + (m * h)]

\* for j in range(StateCount): what the loop adds to pred.states[i]
RECURSIVE j_loop_pred(_, _, _, _)
j_loop_pred(row, hist_move, m, j) ==
    IF j = StateCount THEN 0
    ELSE cell_step(row[j], hist_move[j], m).add + j_loop_pred(row, hist_move, m, j + 1)

\* for d in range(len(self.history)): what the loops add to pred.states[i]; every
\* cell [d][i][j] is visited once, d is the 1-based position here
RECURSIVE d_loop_pred(_, _, _, _, _)
d_loop_pred(w, hist, move, i, d) ==
    IF d = Len(hist) + 1 THEN 0
    ELSE j_loop_pred(w[d][i], hist[d], move[i], 0) + d_loop_pred(w, hist, move, i, d + 1)

\* The core loop: the predicted vector and the tensor it leaves
core_loop(w, hist, move) ==
    [pred |-> [i \in States |-> d_loop_pred(w, hist, move, i, 1)],
     weights |->
        [d \in 1 .. Len(w) |->
            IF d <= Len(hist)
            THEN [i \in States |->
                    [j \in States |-> cell_step(w[d][i][j], hist[d][j], move[i]).cell]]
            ELSE w[d]]]

\* self.history.insert(0, move); pop() when longer than history_depth
history_insert(hist, move, depth) ==
    LET h == << move >> \o hist
    IN  IF Len(h) > depth THEN SubSeq(h, 1, Len(h) - 1) ELSE h

---------------------------------------------------------------------------
(* The engine's interface: one engine, any sequence of calls *)

MaxDepth == 3

MaxMoves == 3

DepthInputs == (-1) .. MaxDepth

\* Bin-aligned angles, both ends of the range, and angles outside it
EngineAngles == {0, 96, 180, 360, -12, 372}

Init ==
    /\ NoEngine
    /\ NoSeries
    /\ ret = NoRet

Construct ==
    \E depth \in DepthInputs :
        /\ ~constructed
        /\ call' = [op |-> "construct", arg |-> depth, outcome |-> ctor_outcome(depth)]
        /\ IF ctor_outcome(depth) = "ok"
           THEN /\ constructed' = TRUE
                /\ history_depth' = depth
                /\ history' = << >>
                /\ weights' = ctor_weights(depth)
           ELSE UNCHANGED << constructed, history_depth, history, weights >>
        /\ UNCHANGED << moveCount, pred, before, scored, seriesVars, ret >>

RecordMove ==
    \E deg \in EngineAngles :
        /\ constructed
        /\ moveCount < MaxMoves
        /\ before' = [history |-> history, weights |-> weights]
        /\ IF get_move_ok(deg)
           THEN LET move == engine_move(deg)
                    r == core_loop(weights, history, move)
                IN  /\ pred' = r.pred
                    /\ weights' = r.weights
                    /\ history' = history_insert(history, move, history_depth)
                    /\ moveCount' = moveCount + 1
                    /\ call' = [op |-> "record", arg |-> deg, outcome |-> "ok"]
           ELSE /\ call' = [op |-> "record", arg |-> deg, outcome |-> "IndexError"]
                /\ UNCHANGED << pred, weights, history, moveCount >>
        /\ scored' = NoScore
        /\ UNCHANGED << constructed, history_depth, seriesVars, ret >>

\* The angles get_scoring_weight is given: the angle just recorded, as
\* test_score_move_series gives it, or an angle outside the range
ScoreInputs == {call.arg, -12, 372}

\* get_scoring_weight(degrees, predicted) with the vector the last
\* record_move_and_get_predicted returned
Score ==
    \E deg \in ScoreInputs :
        /\ constructed
        /\ call.op = "record"
        /\ call.outcome = "ok"
        /\ before' = [history |-> history, weights |-> weights]
        /\ scored' = get_scoring_weight(deg, pred, history, history_depth)
        /\ call' = [op |-> "score", arg |-> deg, outcome |-> scored'.outcome]
        /\ UNCHANGED << constructed, history_depth, history, weights, moveCount,
                        pred, seriesVars, ret >>

Next ==
    \/ Construct
    \/ RecordMove
    \/ Score

Spec == Init /\ [][Next]_vars

---------------------------------------------------------------------------
(* test_score_move_series *)

MaxLen == 4

SeriesAngles == {0, 96, 180, 360}

RECURSIVE SeqsUpTo(_)
SeqsUpTo(n) ==
    IF n = 0 THEN {<< >>}
    ELSE LET shorter == SeqsUpTo(n - 1)
         IN  shorter \cup {Append(q, a) : q \in {x \in shorter : Len(x) = n - 1},
                                            a \in SeriesAngles}

\* a / b for fixed point a and b, in units of 1/FixOne, rounded towards zero
FixDivide(a, b) ==
    IF (a >= 0) = (b > 0) THEN FixQuot(Abs(a), Abs(b)) ELSE -FixQuot(Abs(a), Abs(b))

\* The statements after the loop; a division by 0 raises ZeroDivisionError
final_score(pos, neg) ==
    IF pos < neg
    THEN IF neg = 0
         THEN [outcome |-> "ZeroDivisionError", value |-> 0]
         ELSE [outcome |-> "ok", value |-> 100 * FixDivide(pos, neg)]
    ELSE IF pos = 0
         THEN [outcome |-> "ZeroDivisionError", value |-> 0]
         ELSE [outcome |-> "ok", value |-> 100 * ((2 * FixOne) - FixDivide(neg, pos))]

InitSeries ==
    /\ NoEngine
    /\ degrees \in (SeqsUpTo(MaxLen) \ {<< >>})
    /\ pc = "construct"
    /\ idx = 0
    /\ pos_sum = 0
    /\ neg_sum = 0
    /\ final = NoFinal
    /\ ret = NoRet

\* engine = MovePredictionEngine(len(degrees))
SeriesConstruct ==
    /\ pc = "construct"
    /\ LET depth == Len(degrees)
       IN  /\ call' = [op |-> "construct", arg |-> depth,
                       outcome |-> ctor_outcome(depth)]
           /\ IF ctor_outcome(depth) = "ok"
              THEN /\ constructed' = TRUE
                   /\ history_depth' = depth
                   /\ history' = << >>
                   /\ weights' = ctor_weights(depth)
                   /\ pc' = "loop"
                   /\ final' = final
              ELSE /\ pc' = "raised"
                   /\ final' = [outcome |-> ctor_outcome(depth), value |-> 0]
                   /\ UNCHANGED << constructed, history_depth, history, weights >>
    /\ UNCHANGED << moveCount, pred, before, scored, degrees, idx, pos_sum,
                    neg_sum, ret >>

\* One iteration of the loop: record the move, score it, add to the sums
SeriesMove ==
    /\ pc = "loop"
    /\ idx < Len(degrees)
    /\ LET degree == degrees[idx + 1]
       IN  /\ before' = [history |-> history, weights |-> weights]
           /\ IF get_move_ok(degree)
              THEN LET move == engine_move(degree)
                       r == core_loop(weights, history, move)
                       hist == history_insert(history, move, history_depth)
                       sc == get_scoring_weight(degree, r.pred, hist, history_depth)
                   IN  /\ pred' = r.pred
                       /\ weights' = r.weights
                       /\ history' = hist
                       /\ moveCount' = moveCount + 1
                       /\ scored' = sc
                       /\ call' = [op |-> "score", arg |-> degree, outcome |-> sc.outcome]
                       /\ pos_sum' = pos_sum + sc.pos_add
                       /\ neg_sum' = neg_sum + sc.neg_add
                       /\ idx' = idx + 1
                       /\ UNCHANGED << pc, final >>
              ELSE /\ call' = [op |-> "record", arg |-> degree, outcome |-> "IndexError"]
                   /\ pc' = "raised"
                   /\ final' = [outcome |-> "IndexError", value |-> 0]
                   /\ UNCHANGED << pred, weights, history, moveCount, scored,
                                   pos_sum, neg_sum, idx >>
    /\ UNCHANGED << constructed, history_depth, degrees, ret >>

\* The statements after the loop
SeriesFinish ==
    /\ pc = "loop"
    /\ idx = Len(degrees)
    /\ final' = final_score(pos_sum, neg_sum)
    /\ pc' = IF final'.outcome = "ok" THEN "done" ELSE "raised"
    /\ UNCHANGED << engineVars, degrees, idx, pos_sum, neg_sum, ret >>

NextSeries ==
    \/ SeriesConstruct
    \/ SeriesMove
    \/ SeriesFinish

SpecSeries == InitSeries /\ [][NextSeries]_vars

---------------------------------------------------------------------------
(* Properties *)

Recorded == (call.op = "record") /\ (call.outcome = "ok")

InRange(deg) == (0 <= deg) /\ (deg <= CircularRange)

BinAngle(t) == (CircularRange \div StateCount) * t

\* Claim C1: for every angle sequence of length >= 2 with every angle in
\* [0,360], test_score_move_series ends normally, without a division by zero,
\* and returns a value in [0,200].
C1_ScoreSequenceInRange ==
    ((pc \in {"done", "raised"}) /\ (Len(degrees) >= 2)
        /\ (\A n \in 1 .. Len(degrees) : InRange(degrees[n])))
    => /\ final.outcome = "ok"
       /\ 0 <= final.value
       /\ final.value <= 200 * FixOne

\* Claim C2: record_move_and_get_predicted and get_scoring_weight reject every
\* angle outside [0,360] with an error and leave history and tensor as they
\* were, while 360 is accepted and recorded as 0 is.
C2_OutOfRangeRejected ==
    /\ ((call.op \in {"record", "score"}) /\ ~InRange(call.arg))
        => /\ call.outcome # "ok"
           /\ history = before.history
           /\ weights = before.weights
    /\ (Recorded /\ (call.arg = CircularRange)) => (history[1] = engine_move(0))

\* Claim C3: constructing an engine with history depth <= 1 fails and yields no
\* engine; with any history depth > 1 it succeeds, with an empty history and an
\* all-zero depth x StateCount x StateCount tensor.
C3_Construction ==
    (call.op = "construct")
    => IF call.arg <= 1
       THEN (call.outcome \in {"ValueError", "ZeroDivisionError"}) /\ ~constructed
       ELSE /\ call.outcome = "ok"
            /\ constructed
            /\ history_depth = call.arg
            /\ history = << >>
            /\ DOMAIN weights = 1 .. call.arg
            /\ \A d \in 1 .. call.arg :
                   /\ DOMAIN weights[d] = States
                   /\ \A i \in States :
                          /\ DOMAIN weights[d][i] = States
                          /\ \A j \in States : weights[d][i][j] = 0

C3_Witness ==
    /\ call = [op |-> "construct", arg |-> 1, outcome |-> "ZeroDivisionError"]
    /\ ~constructed

\* Claim C4: for every bin t, get_move at the bin-aligned angle 360*t/StateCount
\* returns template(t) entry by entry (so the entry at t is 1).
C4_BinAlignedReproducesTemplate ==
    \A t \in States :
        ((ret.op = "get_move") /\ (ret.degrees = BinAngle(t)))
        => /\ ret.outcome = "ok"
           /\ \A k \in States :
                  ret.move.states[k] = MoveWeights[t][k] * ret.move.den

\* Claim C5: for every get_scoring_weight call with the angle in [0,360] and a
\* predicted vector that is not all-zero, |score| <= score_range_normalizer, so
\* pos_add and neg_add are >= 0, before and after the scaler is applied.
C5_ContributionsNonNegative ==
    ((ret.op = "get_scoring_weight") /\ InRange(ret.degrees)
        /\ (ret.predicted # ZeroMove))
    => /\ ret.result.outcome = "ok"
       /\ ret.result.contributes
       /\ Abs(ret.result.raw_num) <= ret.result.raw_den * ret.result.max_abs
       /\ (ret.result.raw_den * ret.result.max_abs) - ret.result.raw_num >= 0
       /\ (ret.result.raw_den * ret.result.max_abs) + ret.result.raw_num >= 0
       /\ ret.result.pos_add >= 0
       /\ ret.result.neg_add >= 0

C5_Witness ==
    /\ ret.op = "get_scoring_weight"
    /\ ret.degrees = 35
    /\ ret.histLen = 2
    /\ ret.result.outcome = "ok"
    /\ ret.result.raw_num < 0
    /\ ret.result.pos_add > ret.result.neg_add
    /\ ret.result.neg_add > 0
    /\ \E k \in States : ret.predicted[k] < 0

\* Claim C6: every template t has template(t)[t+j] = template(t)[t-j] =
\* 1 - (4/StateCount)*j for j in 0..StateCount/2, indices modulo StateCount
\* (symmetric about t, +1 at t, -1 at the antipodal bin), and its entries sum to 0.
C6_TemplateSymmetricZeroSum ==
    (ret.op = "template")
    => /\ \A j \in 0 .. (StateCount \div 2) :
              /\ StateCount * ret.states[(ret.t + j) % StateCount]
                     = WeightUnit * (StateCount - (4 * j))
              /\ StateCount * ret.states[(ret.t - j) % StateCount]
                     = WeightUnit * (StateCount - (4 * j))
       /\ SumFrom(ret.states, 0) = 0

C6_Witness ==
    /\ ret.op = "template"
    /\ ret.t = 1
    /\ ret.states[1] = WeightUnit
    /\ ret.states[16] = -WeightUnit
    /\ ret.states[0] = ret.states[2]
    /\ ret.states[29] = ret.states[3]

\* The two-pass reading of the core loop: the predicted entry i from the tensor
\* and history as they were before the call
RECURSIVE SumProducts(_, _, _)
SumProducts(a, b, j) ==
    IF j = StateCount THEN 0 ELSE (a[j] * b[j]) + SumProducts(a, b, j + 1)

RECURSIVE TwoPassPredicted(_, _, _, _)
TwoPassPredicted(t0, h0, i, d) ==
    IF d = 0 THEN 0
    ELSE SumProducts(h0[d], t0[d][i], 0) + TwoPassPredicted(t0, h0, i, d - 1)

\* Claim C7: a record_move_and_get_predicted call returns predicted[i] = the sum
\* over lags d < len(history) and bins j of history[d][j] * T0[d][i][j], T0 the
\* tensor before the call, and leaves tensor[d][i][j] = T0[d][i][j] +
\* vector[i] * history[d][j] for those d: the interleaved pass gives what
\* accumulate-then-update gives.
C7_PredictionUsesPreCallTensor ==
    Recorded
    => LET t0 == before.weights
           h0 == before.history
           vector == engine_move(call.arg)
       IN  /\ \A i \in States : pred[i] = TwoPassPredicted(t0, h0, i, Len(h0))
           /\ \A d \in 1 .. Len(h0) : \A i \in States : \A j \in States :
                  weights[d][i][j] = t0[d][i][j] + (vector[i] * h0[d][j])

C7_Witness ==
    /\ Recorded
    /\ moveCount = 3
    /\ Len(before.history) = 2
    /\ pred # ZeroMove
    /\ weights # before.weights

\* Claim C8, as stated: the predicted vector is all-zero only on the first move
\* of the round, when the history is empty; on every later move it has a
\* non-zero entry.
C8_ZeroOnlyOnFirstMove ==
    Recorded => ((pred = ZeroMove) <=> (before.history = << >>))

\* Claim C8, amended: the predicted vector is all-zero on the first move (empty
\* history) and on the second move too (the tensor is still all-zero), so a
\* prediction with a non-zero entry is the third move's or a later one's; an
\* all-zero prediction contributes (0,0,0).
C8_ZeroOnFirstTwoMoves ==
    /\ (Recorded /\ (moveCount <= 2)) => (pred = ZeroMove)
    /\ ((call.op = "score") /\ (pred = ZeroMove))
        => /\ scored.outcome = "ok"
           /\ ~scored.contributes
           /\ scored.feedback = 0
           /\ scored.pos_add = 0
           /\ scored.neg_add = 0

C8_Witness ==
    /\ call.op = "score"
    /\ moveCount = 2
    /\ Len(history) = 2
    /\ pred = ZeroMove
    /\ weights # before.weights \/ weights # ctor_weights(history_depth)
    /\ ~scored.contributes

\* Claim C9, as stated: within a round the tensor only grows in magnitude: after
\* a call every cell's absolute value is >= its absolute value before the call.
C9_TensorGrowsInMagnitude ==
    Recorded
    => \A d \in DOMAIN weights : \A i \in States : \A j \in States :
           Abs(weights[d][i][j]) >= Abs(before.weights[d][i][j])

\* Claim C9, amended: within a round no cell is reset or overwritten: a call
\* leaves the cells at lags >= len(history) as they were and changes every other
\* cell [d][i][j] by exactly vector[i] * history[d][j]; a cell's magnitude does
\* not shrink when that product has the cell's sign (or the cell is 0), and may
\* shrink when the signs differ.
C9_TensorOnlyAccumulates ==
    Recorded
    => LET vector == engine_move(call.arg)
           h0 == before.history
           t0 == before.weights
       IN  /\ DOMAIN weights = DOMAIN t0
           /\ \A d \in DOMAIN weights : \A i \in States : \A j \in States :
                  LET old == t0[d][i][j]
                      delta == weights[d][i][j] - old
                  IN  /\ (d > Len(h0)) => (delta = 0)
                      /\ (d <= Len(h0)) => (delta = vector[i] * h0[d][j])
                      /\ (((delta >= 0) /\ (old >= 0)) \/ ((delta <= 0) /\ (old <= 0)))
                            => (Abs(weights[d][i][j]) >= Abs(old))

C9_Witness ==
    /\ Recorded
    /\ moveCount = 3
    /\ \E i \in States : \E j \in States :
           /\ before.weights[1][i][j] > 0
           /\ weights[1][i][j] > before.weights[1][i][j]
    /\ \E i \in States : \E j \in States :
           /\ before.weights[1][i][j] > 0
           /\ Abs(weights[1][i][j]) < before.weights[1][i][j]

\* Claim C10: for every get_scoring_weight call made right after recording a
\* move, the multiplier applied to pos_add and neg_add is k^scoreScaler, k the
\* number of moves recorded on the engine so far including the current one, also
\* when k is greater than the history depth.
C10_RecencyUsesMoveCount ==
    ((call.op = "score") /\ (scored.outcome = "ok") /\ scored.contributes)
    => /\ scored.base = moveCount
       /\ scored.scaler = PowScaler(moveCount, history_depth)

============================================================================
